---- MODULE Spec2Model ----
(***************************************************************************)
(* Model of src/src/web/builds.rs (docs.rs): the build listing endpoints   *)
(* (build_list_handler, build_list_json_handler, get_builds) and the       *)
(* rebuild trigger (build_trigger_rebuild_handler, build_trigger_check).   *)
(*                                                                         *)
(* Two specifications share the module:                                    *)
(*   Spec      rebuild requests running concurrently against the queue     *)
(*   SpecList  listing requests against the release/build tables           *)
(* Collaborators whose code is outside builds.rs (the build queue, the     *)
(* release catalog, match_version, the error-to-response mapping) are      *)
(* modelled from the specification and from what the tests of builds.rs    *)
(* assert about them.                                                      *)
(***************************************************************************)
EXTENDS Integers, Sequences, FiniteSets, Bags, TLC

VARIABLES
    cratesio_token, \* Config::cratesio_token : Option<String>
    releases,       \* release catalog: set of [name, version]
    queue,          \* build queue: bag of QueueEntry
    req,            \* rebuild requests in flight, one record per slot
    builds,         \* builds table: set of Build rows (with the release they belong to)
    next_build_id,  \* serial of builds.id
    lreq            \* the listing request in flight

vars == <<cratesio_token, releases, queue, req, builds, next_build_id, lreq>>

rebuildVars == <<cratesio_token, queue, req>>
listVars == <<builds, next_build_id, lreq>>

----------------------------------------------------------------------------
(* Bounds of the model *)

\* number of rebuild requests that can be in flight at the same time
MaxReq == 2

\* number of rows the builds table can hold
MaxBuilds == 3

\* number of rebuild requests in flight at the same time where each request is
\* followed to its end, next to the other users of the queue
MaxLiveReq == 1

----------------------------------------------------------------------------
(* Values *)

\* Option<T>: None is the empty sequence, Some(x) the one-element sequence
None == <<>>
Some(x) == <<x>>

\* semver::Version as <<major, minor, patch>>
V010 == <<0, 1, 0>>
V020 == <<0, 2, 0>>
V131 == <<1, 3, 1>>

\* Display for semver::Version (version.to_string())
VersionToString(v) == ToString(v[1]) \o "." \o ToString(v[2]) \o "." \o ToString(v[3])

\* the release catalog used throughout: crate foo with releases 0.1.0 and 0.2.0
StoredReleases == {[name |-> "foo", version |-> V010], [name |-> "foo", version |-> V020]}

----------------------------------------------------------------------------
(* Handler results: Ok((StatusCode::CREATED, Json(json!({})))) and the      *)
(* AxumNope variants builds.rs constructs or propagates                     *)

Created == [kind |-> "Created", message |-> "{}"]
Unauthorized(msg) == [kind |-> "Unauthorized", message |-> msg]
BadRequest(msg) == [kind |-> "BadRequest", message |-> msg]
VersionNotFound == [kind |-> "VersionNotFound", message |-> ""]
InternalError == [kind |-> "InternalError", message |-> ""]
\* Ok(()) of a check: the handler goes on
Proceed == [kind |-> "Proceed", message |-> ""]
\* no result yet
NoResult == [kind |-> "NoResult", message |-> ""]

\* IntoResponse for JsonAxumNope / the Ok tuple: status line and JSON body
JsonResponse(result) ==
    CASE result.kind = "Created" ->
            [status |-> 201, title |-> "", message |-> "", body |-> "{}"]
      [] result.kind = "Unauthorized" ->
            [status |-> 401, title |-> "Unauthorized", message |-> result.message, body |-> ""]
      [] result.kind = "BadRequest" ->
            [status |-> 400, title |-> "Bad request", message |-> result.message, body |-> ""]
      [] result.kind = "VersionNotFound" ->
            [status |-> 404, title |-> "The requested version does not exist", message |-> result.message, body |-> ""]
      [] OTHER ->
            [status |-> 500, title |-> "Internal Server Error", message |-> result.message, body |-> ""]

----------------------------------------------------------------------------
(* Collaborators of the rebuild trigger *)

\* BuildQueue::pending_count
pending_count(q) == BagCardinality(q)

\* BuildQueue::has_build_queued(name, version)
has_build_queued(q, name, version_string) ==
    \E e \in BagToSet(q) : e.name = name /\ e.version = version_string

\* BuildQueue::add_crate(name, version, priority, registry)
add_crate(q, name, version_string, priority, registry) ==
    q (+) SetToBag({[name |-> name, version |-> version_string,
                     priority |-> priority, registry |-> registry]})

\* CrateDetails::new(conn, name, version, None, vec![]): Some(details) iff the release is in the catalog
CrateDetailsNew(rels, name, version) ==
    IF [name |-> name, version |-> version] \in rels THEN Some("details") ELSE None

----------------------------------------------------------------------------
(* The rebuild trigger *)

\* priority of the builds the queue receives from the registry
DEFAULT_PRIORITY == 0

\* the rebuild trigger submitting at the priority of organic builds
TriggeredRebuildAtDefaultPriority == DEFAULT_PRIORITY

TRIGGERED_REBUILD_PRIORITY == 5

\* Authorize with the header looked at before the configuration
AuthorizeHeaderFirst(expected_token, opt_auth_header) ==
    IF opt_auth_header = None
    THEN Unauthorized("Missing authentication token")
    ELSE IF expected_token = None
    THEN Unauthorized("Endpoint is not configured")
    ELSE IF opt_auth_header[1] /= expected_token[1]
    THEN Unauthorized("The token used for authentication is not valid")
    ELSE Proceed

\* Authorize without the comparison of the token
AuthorizeAnyToken(expected_token, opt_auth_header) ==
    IF expected_token = None
    THEN Unauthorized("Endpoint is not configured")
    ELSE IF opt_auth_header = None
    THEN Unauthorized("Missing authentication token")
    ELSE Proceed

\* the bearer-token gate at the head of build_trigger_rebuild_handler
Authorize(expected_token, opt_auth_header) ==
    IF expected_token = None
    THEN Unauthorized("Endpoint is not configured")
    ELSE IF opt_auth_header = None
    THEN Unauthorized("Missing authentication token")
    ELSE IF opt_auth_header[1] /= expected_token[1]
    THEN Unauthorized("The token used for authentication is not valid")
    ELSE Proceed

\* the first half of build_trigger_check letting a missing release pass
ReleaseCheckResultAlwaysProceed(details) == Proceed

\* build_trigger_check, first half: .ok_or(AxumNope::VersionNotFound)
ReleaseCheckResult(details) ==
    IF details = None THEN VersionNotFound ELSE Proceed

\* the message without the version
AlreadyQueuedMessageNoVersion(name, version) ==
    "crate " \o name \o " already queued for rebuild"

\* anyhow!("crate {name} {version} already queued for rebuild")
AlreadyQueuedMessage(name, version) ==
    "crate " \o name \o " " \o VersionToString(version) \o " already queued for rebuild"

\* QueueCheckResult refusing whatever the flag says
QueueCheckResultAlwaysQueued(crate_version_is_in_queue, name, version) ==
    BadRequest(AlreadyQueuedMessage(name, version))

\* QueueCheckResult without the test of the flag
QueueCheckResultNoDedup(crate_version_is_in_queue, name, version) ==
    Proceed

\* build_trigger_check, second half: if crate_version_is_in_queue { return Err(BadRequest) } Ok(())
QueueCheckResult(crate_version_is_in_queue, name, version) ==
    IF crate_version_is_in_queue
    THEN BadRequest(AlreadyQueuedMessage(name, version))
    ELSE Proceed

\* SubmitRebuild handing the crate name over as the version
SubmitRebuildNameAsVersion(q, name, version) ==
    add_crate(q, name, name, TRIGGERED_REBUILD_PRIORITY, None)

\* SubmitRebuild looking at the queue a second time and adding only an absent release
SubmitRebuildIfAbsent(q, name, version) ==
    IF has_build_queued(q, name, VersionToString(version))
    THEN q
    ELSE add_crate(q, name, VersionToString(version), TRIGGERED_REBUILD_PRIORITY, None)

\* the add_crate call of build_trigger_rebuild_handler
SubmitRebuild(q, name, version) ==
    add_crate(q, name, VersionToString(version), TRIGGERED_REBUILD_PRIORITY, None)

Reqs == 1..MaxReq

\* what POST /crate/{name}/{version}/rebuild can name; foo 0.1.0 and 0.2.0 are stored, regex 1.3.1 is not
RebuildTargets ==
    {[name |-> "foo", version |-> V010],
     [name |-> "foo", version |-> V020],
     [name |-> "regex", version |-> V131]}

\* Authorization headers: absent, or Bearer <token>
AuthHeaders == {None, Some("foo137"), Some("someinvalidtoken")}

\* Config::cratesio_token
ConfigTokens == {None, Some("foo137")}

IdleReq ==
    [pc |-> "idle", name |-> "", version |-> <<0, 0, 0>>, auth |-> None,
     result |-> NoResult, pending0 |-> 0, queued0 |-> FALSE, queue0 |-> EmptyBag,
     undisturbed |-> TRUE,
     n_has |-> 0, n_add |-> 0]

Key(r) == [name |-> req[r].name, version |-> req[r].version]

\* every other request in flight has seen the queue change under it: its
\* snapshot of the queue at arrival (pending0, queued0, queue0) no longer applies
Disturb(rq, r) ==
    [s \in Reqs |-> IF s /= r /\ rq[s].pc /= "idle"
                    THEN [rq[s] EXCEPT !.undisturbed = FALSE, !.pending0 = 0, !.queued0 = FALSE,
                                       !.queue0 = EmptyBag]
                    ELSE rq[s]]

\* POST arrives: the synchronous head of build_trigger_rebuild_handler up to the first await.
\* The extractors of the signature (Path, DbConnection, Extension, TypedHeader) have
\* produced their values: the model starts where the handler body starts.
TriggerRebuild(r, target, auth) ==
    /\ req[r].pc = "idle"
    /\ LET gate == Authorize(cratesio_token, auth)
           started == [IdleReq EXCEPT !.name = target.name,
                                      !.version = target.version,
                                      !.auth = auth,
                                      !.pending0 = pending_count(queue),
                                      !.queue0 = queue,
                                      !.queued0 = has_build_queued(queue, target.name,
                                                                   VersionToString(target.version))]
       IN req' = [req EXCEPT ![r] =
                     IF gate = Proceed
                     THEN [started EXCEPT !.pc = "check_release"]
                     ELSE [started EXCEPT !.pc = "done", !.result = gate]]
    /\ UNCHANGED <<cratesio_token, releases, queue, listVars>>

\* build_trigger_check consulting the queue before it looks the release up
CheckReleaseQueueFirst(r, db_ok) ==
    /\ req[r].pc = "check_release"
    /\ LET checked == IF has_build_queued(queue, req[r].name, VersionToString(req[r].version))
                      THEN QueueCheckResult(TRUE, req[r].name, req[r].version)
                      ELSE IF db_ok
                      THEN ReleaseCheckResult(CrateDetailsNew(releases, req[r].name, req[r].version))
                      ELSE InternalError
       IN req' = [req EXCEPT ![r] =
                     IF checked = Proceed
                     THEN [@ EXCEPT !.pc = "check_queue"]
                     ELSE [@ EXCEPT !.pc = "done", !.result = checked]]
    /\ UNCHANGED <<cratesio_token, releases, queue, listVars>>

\* build_trigger_check: CrateDetails::new(...).await?.ok_or(VersionNotFound)?
CheckRelease(r, db_ok) ==
    /\ req[r].pc = "check_release"
    /\ LET checked == IF db_ok
                      THEN ReleaseCheckResult(CrateDetailsNew(releases, req[r].name, req[r].version))
                      ELSE InternalError
       IN req' = [req EXCEPT ![r] =
                     IF checked = Proceed
                     THEN [@ EXCEPT !.pc = "check_queue"]
                     ELSE [@ EXCEPT !.pc = "done", !.result = checked]]
    /\ UNCHANGED <<cratesio_token, releases, queue, listVars>>

\* build_trigger_check submitting the entry before it tests the flag
CheckQueueSubmittingFirst(r, queue_ok) ==
    /\ req[r].pc = "check_queue"
    /\ LET checked == IF queue_ok
                      THEN QueueCheckResult(
                               has_build_queued(queue, req[r].name, VersionToString(req[r].version)),
                               req[r].name, req[r].version)
                      ELSE InternalError
       IN /\ req' = Disturb([req EXCEPT ![r] =
                        IF checked = Proceed
                        THEN [@ EXCEPT !.pc = "add_crate", !.n_has = @ + 1]
                        ELSE [@ EXCEPT !.pc = "done", !.result = checked, !.n_has = @ + 1]], r)
          /\ queue' = IF queue_ok
                      THEN SubmitRebuild(queue, req[r].name, req[r].version)
                      ELSE queue
    /\ UNCHANGED <<cratesio_token, releases, listVars>>

\* build_trigger_check: spawn_blocking(has_build_queued).await? and the already-queued test
CheckQueue(r, queue_ok) ==
    /\ req[r].pc = "check_queue"
    /\ LET checked == IF queue_ok
                      THEN QueueCheckResult(
                               has_build_queued(queue, req[r].name, VersionToString(req[r].version)),
                               req[r].name, req[r].version)
                      ELSE InternalError
       IN req' = [req EXCEPT ![r] =
                     IF checked = Proceed
                     THEN [@ EXCEPT !.pc = "add_crate", !.n_has = @ + 1]
                     ELSE [@ EXCEPT !.pc = "done", !.result = checked, !.n_has = @ + 1]]
    /\ UNCHANGED <<cratesio_token, releases, queue, listVars>>

\* the submit step answering 201 whatever add_crate returns
AddCrateIgnoringError(r, queue_ok) ==
    /\ req[r].pc = "add_crate"
    /\ IF queue_ok
       THEN /\ queue' = SubmitRebuild(queue, req[r].name, req[r].version)
            /\ req' = Disturb([req EXCEPT ![r] = [@ EXCEPT !.pc = "done", !.result = Created,
                                                            !.n_add = @ + 1]], r)
       ELSE /\ queue' = queue
            /\ req' = [req EXCEPT ![r] = [@ EXCEPT !.pc = "done", !.result = Created,
                                                    !.n_add = @ + 1]]
    /\ UNCHANGED <<cratesio_token, releases, listVars>>

\* the submit step calling add_crate again when the queue rejects the entry
AddCrateRetrying(r, queue_ok) ==
    /\ req[r].pc = "add_crate"
    /\ IF queue_ok
       THEN /\ queue' = SubmitRebuild(queue, req[r].name, req[r].version)
            /\ req' = Disturb([req EXCEPT ![r] = [@ EXCEPT !.pc = "done", !.result = Created,
                                                            !.n_add = @ + 1]], r)
       ELSE /\ queue' = queue
            /\ req' = [req EXCEPT ![r] = [@ EXCEPT !.n_add = @ + 1]]
    /\ UNCHANGED <<cratesio_token, releases, listVars>>

\* build_trigger_rebuild_handler: spawn_blocking(add_crate).await.map_err(..)? and Ok(CREATED)
AddCrate(r, queue_ok) ==
    /\ req[r].pc = "add_crate"
    /\ IF queue_ok
       THEN /\ queue' = SubmitRebuild(queue, req[r].name, req[r].version)
            /\ req' = Disturb([req EXCEPT ![r] = [@ EXCEPT !.pc = "done", !.result = Created,
                                                            !.n_add = @ + 1]], r)
       ELSE /\ queue' = queue
            /\ req' = [req EXCEPT ![r] = [@ EXCEPT !.pc = "done", !.result = InternalError,
                                                    !.n_add = @ + 1]]
    /\ UNCHANGED <<cratesio_token, releases, listVars>>

\* the response has been sent; the slot can take the next request
Respond(r) ==
    /\ req[r].pc = "done"
    /\ req' = [req EXCEPT ![r] = IdleReq]
    /\ UNCHANGED <<cratesio_token, releases, queue, listVars>>

\* the build pipeline takes one pending entry off the queue
ProcessQueueEntry(e) ==
    /\ BagIn(e, queue)
    /\ queue' = queue (-) SetToBag({e})
    /\ req' = Disturb(req, 0)
    /\ UNCHANGED <<cratesio_token, releases, listVars>>

\* what the registry publishes and the catalog does not hold yet
PublishedTargets == {[name |-> "regex", version |-> V131]}

\* the queue receives the build of a newly published release from the registry
\* watcher; the release enters the catalog only when it is built
QueueNewRelease(target) ==
    /\ ~has_build_queued(queue, target.name, VersionToString(target.version))
    /\ queue' = add_crate(queue, target.name, VersionToString(target.version),
                          DEFAULT_PRIORITY, None)
    /\ req' = Disturb(req, 0)
    /\ UNCHANGED <<cratesio_token, releases, listVars>>

\* the server is restarted with another configuration while no request is in flight
Restart(token) ==
    /\ \A r \in Reqs : req[r].pc = "idle"
    /\ token /= cratesio_token
    /\ cratesio_token' = token
    /\ UNCHANGED <<releases, queue, req, listVars>>


----------------------------------------------------------------------------
(* The builds table and get_builds *)

\* BuildStatus as stored in builds.build_status
BuildStatuses == {"success", "failure", "in_progress"}

\* BuildStatus::is_success
is_success(build_status) == build_status = "success"

\* struct Build: the columns get_builds selects
BuildOf(row) ==
    [id |-> row.id,
     rustc_version |-> row.rustc_version,
     docsrs_version |-> row.docsrs_version,
     build_status |-> row.build_status,
     build_time |-> row.build_time,
     errors |-> row.errors]

\* ORDER BY id DESC
RECURSIVE OrderByIdDesc(_)
OrderByIdDesc(rows) ==
    IF rows = {} THEN <<>>
    ELSE LET top == CHOOSE b \in rows : \A c \in rows : c.id <= b.id
         IN <<BuildOf(top)>> \o OrderByIdDesc(rows \ {top})

\* ORDER BY id ASC
RECURSIVE OrderByIdAsc(_)
OrderByIdAsc(rows) ==
    IF rows = {} THEN <<>>
    ELSE LET low == CHOOSE b \in rows : \A c \in rows : c.id >= b.id
         IN <<BuildOf(low)>> \o OrderByIdAsc(rows \ {low})

\* get_builds without the build_status condition of the WHERE clause
get_builds_unfiltered(tbl, name, version) ==
    OrderByIdDesc({row \in tbl : row.name = name /\ row.version = VersionToString(version)})

\* get_builds ordering by ascending id
get_builds_ascending(tbl, name, version) ==
    OrderByIdAsc({row \in tbl : /\ row.name = name
                                /\ row.version = VersionToString(version)
                                /\ row.build_status /= "in_progress"})

\* get_builds: WHERE crates.name = $1 AND releases.version = $2 AND
\* builds.build_status != 'in_progress' ORDER BY id DESC
get_builds(tbl, name, version) ==
    OrderByIdDesc({row \in tbl : /\ row.name = name
                                 /\ row.version = VersionToString(version)
                                 /\ row.build_status /= "in_progress"})

----------------------------------------------------------------------------
(* Version resolution: ReqVersion, match_version and the canonical form *)

NoVersion == <<0, 0, 0>>

\* ReqVersion::Latest, ReqVersion::Exact(version), ReqVersion::Semver(requirement);
\* a requirement is the list of leading components it fixes ("0.1" fixes <<0, 1>>)
Latest == [kind |-> "Latest", version |-> NoVersion, prefix |-> <<>>]
Exact(version) == [kind |-> "Exact", version |-> version, prefix |-> <<>>]
Semver(prefix) == [kind |-> "Semver", version |-> NoVersion, prefix |-> prefix]
Invalid == [kind |-> "Invalid", version |-> NoVersion, prefix |-> <<>>]

\* the {version} path segments of the listing requests
Specifiers == {"0.1.0", "0.2.0", "1.3.1", "latest", "0.1", "0", "0,1,0"}

\* the {name} path segments of the listing requests, spelled as stored
ListNames == {"foo", "regex"}

\* ReqVersion::from_str on the path segment
ParseReqVersion(specifier) ==
    CASE specifier = "latest" -> Latest
      [] specifier = "0.1.0" -> Exact(V010)
      [] specifier = "0.2.0" -> Exact(V020)
      [] specifier = "1.3.1" -> Exact(V131)
      [] specifier = "0.1" -> Semver(<<0, 1>>)
      [] specifier = "0" -> Semver(<<0>>)
      [] OTHER -> Invalid

\* Display for ReqVersion
ReqVersionToString(req_version) ==
    CASE req_version.kind = "Latest" -> "latest"
      [] req_version.kind = "Exact" -> VersionToString(req_version.version)
      [] req_version.kind = "Semver" ->
            IF Len(req_version.prefix) = 1
            THEN ToString(req_version.prefix[1])
            ELSE ToString(req_version.prefix[1]) \o "." \o ToString(req_version.prefix[2])
      [] OTHER -> ""

\* semver order on versions
VersionLess(a, b) ==
    \/ a[1] < b[1]
    \/ a[1] = b[1] /\ a[2] < b[2]
    \/ a[1] = b[1] /\ a[2] = b[2] /\ a[3] < b[3]

\* VersionReq::matches
Matches(req_version, version) ==
    CASE req_version.kind = "Latest" -> TRUE
      [] req_version.kind = "Exact" -> version = req_version.version
      [] req_version.kind = "Semver" ->
            \A i \in 1..Len(req_version.prefix) : version[i] = req_version.prefix[i]
      [] OTHER -> FALSE

\* the releases of a crate the web frontend shows: those with a build that is not in progress
VisibleVersions(rels, tbl, name) ==
    {r.version : r \in {x \in rels :
        /\ x.name = name
        /\ \E row \in tbl : /\ row.name = name
                            /\ row.version = VersionToString(x.version)
                            /\ row.build_status /= "in_progress"}}

\* match_version: the highest visible release of the crate the specifier matches
match_version(rels, tbl, name, req_version) ==
    LET matching == {v \in VisibleVersions(rels, tbl, name) : Matches(req_version, v)}
    IN IF matching = {}
       THEN [ok |-> FALSE, corrected_name |-> None, req_version |-> req_version, version |-> NoVersion]
       ELSE [ok |-> TRUE, corrected_name |-> None, req_version |-> req_version,
             version |-> CHOOSE v \in matching : \A w \in matching : ~VersionLess(v, w)]

\* MatchedRelease::assume_exact_name
assume_exact_name(matched) == matched.corrected_name = None

\* MatchedRelease::into_canonical_req_version: "latest" and an exact version are
\* canonical, a requirement becomes the exact version it matched
into_canonical_req_version(matched) ==
    IF matched.req_version.kind = "Semver"
    THEN Exact(matched.version)
    ELSE matched.req_version

----------------------------------------------------------------------------
(* The listing handlers *)

Routes == {"builds", "builds.json"}

\* CachePolicy of a response on which the handler sets none
DefaultCachePolicy == "NoCaching"

\* builds.json with the policy of the redirects
JsonCachePolicyForever == "ForeverInCdn"

\* Extension(CachePolicy::NoStoreMustRevalidate) of build_list_json_handler
JsonCachePolicy == "NoStoreMustRevalidate"

NoResponse ==
    [status |-> 0, kind |-> "none", location |-> "", cache |-> "", cors |-> "",
     body |-> <<>>, canonical_url |-> ""]

\* the redirect closure with the policy of a page
RedirectToNoCaching(route, name, version) ==
    [status |-> 302, kind |-> "redirect",
     location |-> "/crate/" \o name \o "/" \o ReqVersionToString(version) \o "/" \o route,
     cache |-> "NoCaching", cors |-> "", body |-> <<>>, canonical_url |-> ""]

\* AxumNope::Redirect(format!("/crate/{name}/{version}/builds"), CachePolicy::ForeverInCdn)
\* and its builds.json twin
RedirectTo(route, name, version) ==
    [status |-> 302, kind |-> "redirect",
     location |-> "/crate/" \o name \o "/" \o ReqVersionToString(version) \o "/" \o route,
     cache |-> "ForeverInCdn", cors |-> "", body |-> <<>>, canonical_url |-> ""]

\* the response of AxumNope::VersionNotFound and of a rejected path
NotFoundResponse ==
    [status |-> 404, kind |-> "error", location |-> "", cache |-> DefaultCachePolicy,
     cors |-> "", body |-> <<>>, canonical_url |-> ""]

\* the response of a propagated storage error
ServerErrorResponse ==
    [status |-> 500, kind |-> "error", location |-> "", cache |-> DefaultCachePolicy,
     cors |-> "", body |-> <<>>, canonical_url |-> ""]

\* BuildsPage { builds, canonical_url, .. }.into_response()
PageResponse(name, fetched) ==
    [status |-> 200, kind |-> "page", location |-> "", cache |-> DefaultCachePolicy,
     cors |-> "", body |-> fetched,
     canonical_url |-> "/crate/" \o name \o "/latest/builds"]

\* one element of builds.json that carries the error log too
ApiBuildWithErrors(build) ==
    [id |-> build.id,
     rustc_version |-> build.rustc_version,
     docsrs_version |-> build.docsrs_version,
     build_status |-> is_success(build.build_status),
     build_time |-> build.build_time,
     errors |-> build.errors]

\* one element of builds.json with the status taken as "not a failure"
ApiBuildNotFailure(build) ==
    [id |-> build.id,
     rustc_version |-> build.rustc_version,
     docsrs_version |-> build.docsrs_version,
     build_status |-> build.build_status /= "failure",
     build_time |-> build.build_time]

\* one element of builds.json: serde_json::json!({ "id": .., "build_status": build.build_status.is_success(), .. })
ApiBuild(build) ==
    [id |-> build.id,
     rustc_version |-> build.rustc_version,
     docsrs_version |-> build.docsrs_version,
     build_status |-> is_success(build.build_status),
     build_time |-> build.build_time]

\* (Extension(NoStoreMustRevalidate), [(ACCESS_CONTROL_ALLOW_ORIGIN, "*")], Json(..)).into_response()
ApiResponse(fetched) ==
    [status |-> 200, kind |-> "json", location |-> "", cache |-> JsonCachePolicy,
     cors |-> "*", body |-> [i \in 1..Len(fetched) |-> ApiBuild(fetched[i])],
     canonical_url |-> ""]

\* the listing request: its path, what the catalog held when it arrived (visible0,
\* nbuilds0: the build rows of the crate+version the path spells out), whether a
\* query of it failed (db_failed), what match_version answered (matched), the
\* version it resolved to, what get_builds returned (rows) and its response
IdleList ==
    [pc |-> "idle", route |-> "", name |-> "", specifier |-> "", visible0 |-> {},
     nbuilds0 |-> 0, db_failed |-> FALSE,
     matched |-> FALSE, version |-> NoVersion, rows |-> <<>>, response |-> NoResponse]

\* the resolution chain taking only an exact version as canonical
ResolveResponseExactOnly(route, rels, tbl, name, specifier, db_ok) ==
    LET req_version == ParseReqVersion(specifier)
        matched == match_version(rels, tbl, name, req_version)
    IN IF req_version = Invalid THEN NotFoundResponse
       ELSE IF ~db_ok THEN ServerErrorResponse
       ELSE IF ~matched.ok THEN NotFoundResponse
       ELSE IF ~assume_exact_name(matched) THEN NotFoundResponse
       ELSE IF req_version.kind /= "Exact"
       THEN RedirectTo(route, name, Exact(matched.version))
       ELSE NoResponse

\* the resolution chain answering a path it cannot parse with a server error
ResolveResponseInvalidAsError(route, rels, tbl, name, specifier, db_ok) ==
    LET req_version == ParseReqVersion(specifier)
        matched == match_version(rels, tbl, name, req_version)
    IN IF req_version = Invalid THEN ServerErrorResponse
       ELSE IF ~db_ok THEN ServerErrorResponse
       ELSE IF ~matched.ok THEN NotFoundResponse
       ELSE IF ~assume_exact_name(matched) THEN NotFoundResponse
       ELSE IF into_canonical_req_version(matched) /= req_version
       THEN RedirectTo(route, name, into_canonical_req_version(matched))
       ELSE NoResponse

\* the resolution chain going on with the handler when no release matched
ResolveResponseUnmatchedGoesOn(route, rels, tbl, name, specifier, db_ok) ==
    LET req_version == ParseReqVersion(specifier)
        matched == match_version(rels, tbl, name, req_version)
    IN IF req_version = Invalid THEN NotFoundResponse
       ELSE IF ~db_ok THEN ServerErrorResponse
       ELSE IF ~matched.ok THEN NoResponse
       ELSE IF ~assume_exact_name(matched) THEN NotFoundResponse
       ELSE IF into_canonical_req_version(matched) /= req_version
       THEN RedirectTo(route, name, into_canonical_req_version(matched))
       ELSE NoResponse

\* build_list_json_handler taking only an exact version as canonical
build_list_json_resolution_exact_only(rels, tbl, name, specifier, db_ok) ==
    ResolveResponseExactOnly("builds.json", rels, tbl, name, specifier, db_ok)

\* build_list_handler: match_version(..).await?.assume_exact_name()?
\* .into_canonical_req_version_or_else(|version| Redirect("/crate/{name}/{version}/builds",
\* ForeverInCdn))?.into_version(): the response that ends the request, or NoResponse
\* when the handler goes on with the version
build_list_resolution(rels, tbl, name, specifier, db_ok) ==
    LET req_version == ParseReqVersion(specifier)
        matched == match_version(rels, tbl, name, req_version)
    IN IF req_version = Invalid THEN NotFoundResponse
       ELSE IF ~db_ok THEN ServerErrorResponse
       ELSE IF ~matched.ok THEN NotFoundResponse
       ELSE IF ~assume_exact_name(matched) THEN NotFoundResponse
       ELSE IF into_canonical_req_version(matched) /= req_version
       THEN RedirectTo("builds", name, into_canonical_req_version(matched))
       ELSE NoResponse

\* build_list_json_handler: the same chain, written a second time, with the
\* redirect to "/crate/{name}/{version}/builds.json"
build_list_json_resolution(rels, tbl, name, specifier, db_ok) ==
    LET req_version == ParseReqVersion(specifier)
        matched == match_version(rels, tbl, name, req_version)
    IN IF req_version = Invalid THEN NotFoundResponse
       ELSE IF ~db_ok THEN ServerErrorResponse
       ELSE IF ~matched.ok THEN NotFoundResponse
       ELSE IF ~assume_exact_name(matched) THEN NotFoundResponse
       ELSE IF into_canonical_req_version(matched) /= req_version
       THEN RedirectTo("builds.json", name, into_canonical_req_version(matched))
       ELSE NoResponse

\* the resolution of the handler the route belongs to
ResolveResponse(route, rels, tbl, name, specifier, db_ok) ==
    IF route = "builds"
    THEN build_list_resolution(rels, tbl, name, specifier, db_ok)
    ELSE build_list_json_resolution(rels, tbl, name, specifier, db_ok)

\* GET /crate/{name}/{version}/builds[.json] arrives: the handler up to into_version()
ListResolve(route, name, specifier, db_ok) ==
    /\ lreq.pc = "idle"
    /\ LET early == ResolveResponse(route, releases, builds, name, specifier, db_ok)
           started == [IdleList EXCEPT !.route = route, !.name = name, !.specifier = specifier,
                                       !.visible0 = VisibleVersions(releases, builds, name),
                                       !.nbuilds0 = Cardinality({row \in builds :
                                                        row.name = name /\ row.version = specifier}),
                                       !.db_failed = ParseReqVersion(specifier) /= Invalid /\ ~db_ok,
                                       !.matched = db_ok /\ match_version(releases, builds, name,
                                                                         ParseReqVersion(specifier)).ok]
       IN lreq' = IF early = NoResponse
                  THEN [started EXCEPT !.pc = "fetch",
                           !.version = match_version(releases, builds, name,
                                                     ParseReqVersion(specifier)).version]
                  ELSE [started EXCEPT !.pc = "done", !.response = early]
    /\ UNCHANGED <<releases, builds, next_build_id, rebuildVars>>

\* the rest of the handler: get_builds (with MetaData and Limits for the page) and the response
ListFetch(db_ok) ==
    /\ lreq.pc = "fetch"
    /\ LET fetched == get_builds(builds, lreq.name, lreq.version)
       IN lreq' = IF ~db_ok
                  THEN [lreq EXCEPT !.pc = "done", !.db_failed = TRUE,
                                    !.response = ServerErrorResponse]
                  ELSE [lreq EXCEPT !.pc = "done", !.rows = fetched,
                           !.response = IF lreq.route = "builds"
                                        THEN PageResponse(lreq.name, fetched)
                                        ELSE ApiResponse(fetched)]
    /\ UNCHANGED <<releases, builds, next_build_id, rebuildVars>>

\* the response has been sent
ListRespond ==
    /\ lreq.pc = "done"
    /\ lreq' = IdleList
    /\ UNCHANGED <<releases, builds, next_build_id, rebuildVars>>

\* the builder starts a build of a release: a row with the next id, in progress
StartBuild(release) ==
    /\ release \in releases
    /\ Cardinality(builds) < MaxBuilds
    /\ builds' = builds \cup
          {[id |-> next_build_id, name |-> release.name,
            version |-> VersionToString(release.version),
            build_status |-> "in_progress",
            rustc_version |-> None, docsrs_version |-> None,
            build_time |-> None, errors |-> None]}
    /\ next_build_id' = next_build_id + 1
    /\ UNCHANGED <<releases, lreq, rebuildVars>>

\* the builder finishes a build
FinishBuild(row, successful) ==
    /\ row \in builds
    /\ row.build_status = "in_progress"
    /\ builds' = (builds \ {row}) \cup
          {IF successful
           THEN [row EXCEPT !.build_status = "success",
                            !.rustc_version = Some("rustc (blabla 2019-01-01)"),
                            !.docsrs_version = Some("docs.rs 1.0.0"),
                            !.build_time = Some(row.id)]
           ELSE [row EXCEPT !.build_status = "failure",
                            !.build_time = Some(row.id),
                            !.errors = Some("some errors")]}
    /\ UNCHANGED <<releases, next_build_id, lreq, rebuildVars>>

----------------------------------------------------------------------------
(* The two specifications *)

InitRebuild ==
    /\ cratesio_token \in ConfigTokens
    /\ queue = EmptyBag
    /\ req = [r \in Reqs |-> IdleReq]

InitListIdle ==
    /\ builds = {}
    /\ next_build_id = 1
    /\ lreq = IdleList

Init ==
    /\ releases = StoredReleases
    /\ InitRebuild
    /\ InitListIdle

Next ==
    \/ \E r \in Reqs, target \in RebuildTargets, auth \in AuthHeaders : TriggerRebuild(r, target, auth)
    \/ \E r \in Reqs, db_ok \in BOOLEAN : CheckRelease(r, db_ok)
    \/ \E r \in Reqs, queue_ok \in BOOLEAN : CheckQueue(r, queue_ok)
    \/ \E r \in Reqs, queue_ok \in BOOLEAN : AddCrate(r, queue_ok)
    \/ \E r \in Reqs : Respond(r)
    \/ \E e \in BagToSet(queue) : ProcessQueueEntry(e)
    \/ \E token \in ConfigTokens : Restart(token)

Spec == Init /\ [][Next]_vars

\* the requests that are followed to their end
LiveReqs == 1..MaxLiveReq

\* a step of the handler of request r that waits for a collaborator
AwaitedStep(r) ==
    \/ \E db_ok \in BOOLEAN : CheckRelease(r, db_ok)
    \/ \E queue_ok \in BOOLEAN : CheckQueue(r, queue_ok)
    \/ \E queue_ok \in BOOLEAN : AddCrate(r, queue_ok)

NextLive ==
    \/ \E r \in LiveReqs, target \in RebuildTargets, auth \in AuthHeaders : TriggerRebuild(r, target, auth)
    \/ \E r \in LiveReqs : AwaitedStep(r)
    \/ \E r \in LiveReqs : Respond(r)
    \/ \E e \in BagToSet(queue) : ProcessQueueEntry(e)
    \/ \E target \in PublishedTargets : QueueNewRelease(target)
    \/ \E token \in ConfigTokens : Restart(token)

\* every call the handler awaits returns, with a value or with an error
CollaboratorsAnswer == \A r \in LiveReqs : WF_vars(AwaitedStep(r))

\* rebuild requests followed to their end while the registry and the build
\* pipeline use the queue
SpecLive == Init /\ [][NextLive]_vars /\ CollaboratorsAnswer

InitList ==
    /\ releases = StoredReleases
    /\ InitListIdle
    /\ cratesio_token = None
    /\ queue = EmptyBag
    /\ req = [r \in Reqs |-> IdleReq]

NextList ==
    \/ \E route \in Routes, name \in ListNames, specifier \in Specifiers, db_ok \in BOOLEAN :
          ListResolve(route, name, specifier, db_ok)
    \/ \E db_ok \in BOOLEAN : ListFetch(db_ok)
    \/ ListRespond
    \/ \E release \in StoredReleases : StartBuild(release)
    \/ \E row \in builds, successful \in BOOLEAN : FinishBuild(row, successful)

SpecList == InitList /\ [][NextList]_vars

----------------------------------------------------------------------------
(* Properties of the rebuild trigger, checked under Spec *)

\* the request in slot r carries the configured secret
ValidToken(r) == cratesio_token /= None /\ req[r].auth = cratesio_token

\* the request in slot r names a release of the catalog
Stored(r) == Key(r) \in releases

\* the request in slot r has its response, and nothing but the request itself
\* touched the queue since it arrived
RanAlone(r) == req[r].pc = "done" /\ req[r].undisturbed

\* pending entries of one crate+version
PendingEntries(q, name, version_string) ==
    LET same == {e \in BagToSet(q) : e.name = name /\ e.version = version_string}
    IN BagCardinality([e \in same |-> q[e]])

\* the message the tests expect for an already queued release
ExpectedAlreadyQueued(name, version) ==
    CASE name = "foo" /\ version = V010 -> "crate foo 0.1.0 already queued for rebuild"
      [] name = "foo" /\ version = V020 -> "crate foo 0.2.0 already queued for rebuild"
      [] name = "regex" /\ version = V131 -> "crate regex 1.3.1 already queued for rebuild"

AcceptedAndQueued(r) ==
    /\ JsonResponse(req[r].result).status = 201
    /\ JsonResponse(req[r].result).body = "{}"
    /\ pending_count(queue) = req[r].pending0 + 1
    /\ has_build_queued(queue, req[r].name, VersionToString(req[r].version))

\* C1 as stated: a rebuild request with a valid token for a stored release that
\* is not queued, running alone, ends with 201 and body {}, pending_count is
\* one larger than before and has_build_queued is true.
C1_AsStated ==
    \A r \in Reqs :
        (RanAlone(r) /\ ValidToken(r) /\ Stored(r) /\ ~req[r].queued0)
            => AcceptedAndQueued(r)

\* C1 amended: the same, provided no collaborator call of the request (catalog
\* lookup, has_build_queued, add_crate) failed; a failed call ends the request
\* with a server error and adds nothing.
C1_RebuildAccepted ==
    \A r \in Reqs :
        (RanAlone(r) /\ ValidToken(r) /\ Stored(r) /\ ~req[r].queued0)
            => IF req[r].result = InternalError
               THEN pending_count(queue) = req[r].pending0
               ELSE AcceptedAndQueued(r)

\* a request was accepted while another release was already pending
C1_Witness ==
    \E r \in Reqs :
        /\ RanAlone(r) /\ ValidToken(r) /\ Stored(r) /\ ~req[r].queued0
        /\ req[r].result = Created
        /\ req[r].pending0 = 1
        /\ pending_count(queue) = 2

RejectedAsQueued(r) ==
    /\ JsonResponse(req[r].result).status = 400
    /\ JsonResponse(req[r].result).title = "Bad request"
    /\ JsonResponse(req[r].result).message = ExpectedAlreadyQueued(req[r].name, req[r].version)
    /\ pending_count(queue) = req[r].pending0

\* C2 as stated: a valid rebuild request for a release whose entry is still
\* pending ends with 400 "crate {name} {version} already queued for rebuild"
\* and leaves pending_count unchanged.
C2_AsStated ==
    \A r \in Reqs :
        (RanAlone(r) /\ ValidToken(r) /\ Stored(r) /\ req[r].queued0)
            => RejectedAsQueued(r)

\* C2 amended: the same, provided the catalog lookup and has_build_queued
\* answered; if one of them failed the request ends with a server error,
\* still leaving pending_count unchanged.
C2_RepeatRejected ==
    \A r \in Reqs :
        (RanAlone(r) /\ ValidToken(r) /\ Stored(r) /\ req[r].queued0)
            => IF req[r].result = InternalError
               THEN pending_count(queue) = req[r].pending0
               ELSE RejectedAsQueued(r)

\* a repeated request was rejected with the entry still pending
C2_Witness ==
    \E r \in Reqs :
        /\ RanAlone(r) /\ ValidToken(r) /\ req[r].queued0
        /\ req[r].result.kind = "BadRequest"
        /\ req[r].n_has = 1
        /\ has_build_queued(queue, req[r].name, VersionToString(req[r].version))

\* C3 as stated: in every reachable state there is at most one pending entry
\* per crate+version, whatever the interleaving of rebuild requests.
C3_AsStated ==
    \A e \in BagToSet(queue) : PendingEntries(queue, e.name, e.version) <= 1

\* C3 amended: rebuild requests that do not overlap never leave two pending
\* entries for one key: a request that is accepted while nobody else changes the
\* queue leaves exactly one pending entry for its crate+version. Two entries
\* coexist only after requests that overlapped between has_build_queued and
\* add_crate, which are two separate steps.
C3_AloneLeavesOneEntry ==
    \A r \in Reqs :
        (RanAlone(r) /\ req[r].result = Created)
            => PendingEntries(queue, req[r].name, VersionToString(req[r].version)) = 1

\* a request was accepted alone and the next request for the same key was
\* rejected, leaving the one entry
C3_Witness ==
    \E r, s \in Reqs :
        /\ r /= s /\ Key(r) = Key(s)
        /\ RanAlone(r) /\ req[r].result = Created
        /\ RanAlone(s) /\ req[s].result.kind = "BadRequest"
        /\ PendingEntries(queue, req[r].name, VersionToString(req[r].version)) = 1

\* C4: with no cratesio_token configured every rebuild request ends with 401
\* "Endpoint is not configured", whatever its credential and target; it calls
\* neither has_build_queued nor add_crate and leaves the queue as it was.
C4_NotConfigured ==
    \A r \in Reqs :
        (req[r].pc /= "idle" /\ cratesio_token = None)
            => /\ req[r].pc = "done"
               /\ JsonResponse(req[r].result).status = 401
               /\ JsonResponse(req[r].result).title = "Unauthorized"
               /\ JsonResponse(req[r].result).message = "Endpoint is not configured"
               /\ req[r].n_has = 0 /\ req[r].n_add = 0
               /\ (req[r].undisturbed => pending_count(queue) = req[r].pending0)

\* an unconfigured endpoint refused a request that carried a token and named a queued release
C4_Witness ==
    \E r \in Reqs :
        /\ cratesio_token = None
        /\ req[r].pc = "done" /\ req[r].undisturbed
        /\ req[r].auth = Some("foo137")
        /\ req[r].queued0

\* C5: with a secret configured, a request without bearer credential ends with
\* 401 "Missing authentication token", a request whose credential differs from
\* the secret ends with 401 "The token used for authentication is not valid",
\* and neither enqueues anything.
C5_MissingOrInvalidToken ==
    \A r \in Reqs :
        (req[r].pc /= "idle" /\ cratesio_token /= None /\ req[r].auth /= cratesio_token)
            => /\ req[r].pc = "done"
               /\ JsonResponse(req[r].result).status = 401
               /\ JsonResponse(req[r].result).title = "Unauthorized"
               /\ JsonResponse(req[r].result).message =
                      IF req[r].auth = None
                      THEN "Missing authentication token"
                      ELSE "The token used for authentication is not valid"
               /\ req[r].n_has = 0 /\ req[r].n_add = 0
               /\ (req[r].undisturbed => pending_count(queue) = req[r].pending0)

\* one request without credential and one with a wrong token were both refused
C5_Witness ==
    \E r, s \in Reqs :
        /\ cratesio_token = Some("foo137")
        /\ req[r].pc = "done" /\ req[r].auth = None
        /\ req[s].pc = "done" /\ req[s].auth = Some("someinvalidtoken")
        /\ JsonResponse(req[r].result).message /= JsonResponse(req[s].result).message

----------------------------------------------------------------------------
(* Properties of the listing endpoints, checked under SpecList *)

\* the crate+version pairs a listing can be fetched for
ListKeys == {<<name, version>> : name \in ListNames, version \in {V010, V020, V131}}

\* C6: whatever the builds table holds, the sequence get_builds returns for a
\* crate+version has no record in progress, and so has no page of the HTML
\* endpoint and no record sequence behind a builds.json response.
C6_NoInProgressReturned ==
    /\ \A k \in ListKeys :
          \A i \in DOMAIN get_builds(builds, k[1], k[2]) :
              get_builds(builds, k[1], k[2])[i].build_status /= "in_progress"
    /\ \A i \in DOMAIN lreq.rows : lreq.rows[i].build_status /= "in_progress"
    /\ lreq.response.kind = "page" =>
          \A i \in DOMAIN lreq.response.body :
              lreq.response.body[i].build_status /= "in_progress"

\* a page was served for a release that had a build in progress next to finished ones
C6_Witness ==
    /\ lreq.pc = "done" /\ lreq.response.kind = "page"
    /\ Len(lreq.response.body) >= 1
    /\ \E row \in builds :
          /\ row.build_status = "in_progress"
          /\ row.name = lreq.name /\ row.version = VersionToString(lreq.version)
          /\ row.id < lreq.response.body[1].id

StrictlyDescending(seq) ==
    \A i \in 1..(Len(seq) - 1) : seq[i].id > seq[i + 1].id

\* C7: every sequence get_builds returns is strictly ordered by descending id,
\* and so is every served list.
C7_DescendingId ==
    /\ \A k \in ListKeys : StrictlyDescending(get_builds(builds, k[1], k[2]))
    /\ StrictlyDescending(lreq.rows)
    /\ lreq.response.kind \in {"page", "json"} => StrictlyDescending(lreq.response.body)

\* a list of at least two builds was served
C7_Witness ==
    /\ lreq.pc = "done" /\ lreq.response.kind = "json"
    /\ Len(lreq.response.body) >= 2
    /\ lreq.response.body[1].id > lreq.response.body[2].id

\* C8: in builds.json the boolean build_status of every record is TRUE exactly
\* when the record's status is success; the projection gives FALSE for every
\* other status of the table.
C8_ApiStatusIsSuccess ==
    /\ lreq.response.kind = "json" =>
          /\ Len(lreq.response.body) = Len(lreq.rows)
          /\ \A i \in DOMAIN lreq.rows :
                lreq.response.body[i].build_status = (lreq.rows[i].build_status = "success")
    /\ \A row \in builds :
          ApiBuild(BuildOf(row)).build_status = (row.build_status = "success")

\* builds.json was served with a successful and a failed build
C8_Witness ==
    /\ lreq.pc = "done" /\ lreq.response.kind = "json"
    /\ \E i, j \in DOMAIN lreq.response.body :
          /\ lreq.response.body[i].build_status = TRUE
          /\ lreq.response.body[j].build_status = FALSE
          /\ lreq.rows[j].build_status = "failure"

\* the specifiers that are requirements, not "latest" or an exact version
RequirementSpecifiers == {"0.1", "0"}

\* the version a specifier stands for among the visible versions
ExpectedVersion(specifier, visible) ==
    CASE specifier = "0.1.0" -> V010
      [] specifier = "0.2.0" -> V020
      [] specifier = "0.1" -> V010
      [] specifier \in {"latest", "0"} -> IF V020 \in visible THEN V020 ELSE V010
      [] OTHER -> NoVersion

ExpectedVersionString(specifier, visible) ==
    IF ExpectedVersion(specifier, visible) = V020 THEN "0.2.0" ELSE "0.1.0"

RequestPath(l) == "/crate/" \o l.name \o "/" \o l.specifier \o "/" \o l.route

\* the path of the response a client ends at when it follows the redirect
FinalPath(l) == IF l.response.kind = "redirect" THEN l.response.location ELSE RequestPath(l)

LatestOfBoth ==
    /\ lreq.pc = "done" /\ lreq.matched
    /\ lreq.specifier = "latest"
    /\ lreq.visible0 = {V010, V020}

\* C10 as stated: requesting "latest" for a crate with releases 0.1.0 and 0.2.0
\* redirects, the final path ends in /crate/{name}/latest/builds (builds.json)
\* and the response is ForeverInCdn.
C10_AsStated ==
    LatestOfBoth =>
        /\ lreq.response.kind = "redirect"
        /\ FinalPath(lreq) = "/crate/" \o lreq.name \o "/latest/" \o lreq.route
        /\ lreq.response.cache = "ForeverInCdn"

\* C10 amended: requesting "latest" for a crate with releases 0.1.0 and 0.2.0
\* is answered without redirect, so the final path is the requested
\* /crate/{name}/latest/builds (builds.json); the response is not ForeverInCdn:
\* a served page is NoCaching, a served builds.json NoStoreMustRevalidate.
C10_LatestServedInPlace ==
    LatestOfBoth =>
        /\ lreq.response.kind /= "redirect"
        /\ FinalPath(lreq) = "/crate/" \o lreq.name \o "/latest/" \o lreq.route
        /\ lreq.response.cache /= "ForeverInCdn"
        /\ lreq.response.status = 200 =>
              lreq.response.cache =
                  (IF lreq.route = "builds" THEN "NoCaching" ELSE "NoStoreMustRevalidate")

\* the page of "latest" was served for the crate with both releases
C10_Witness ==
    /\ LatestOfBoth
    /\ lreq.route = "builds"
    /\ lreq.response.status = 200
    /\ lreq.version = V020
    /\ lreq.response.canonical_url = "/crate/foo/latest/builds"

----------------------------------------------------------------------------
(* Listing requests that find nothing, checked under SpecList *)

\* the listing request spells out a release of the catalog that had no build
\* row at all when the request arrived
ReleaseWithoutBuilds ==
    /\ lreq.pc /= "idle"
    /\ ParseReqVersion(lreq.specifier).kind = "Exact"
    /\ [name |-> lreq.name, version |-> ParseReqVersion(lreq.specifier).version] \in releases
    /\ lreq.nbuilds0 = 0

\* no listing is served with status 200 and an empty list
NoEmptyListServed ==
    lreq.response.status = 200 => Len(lreq.response.body) >= 1

\* C11 as stated: a listing request for a crate+version that has zero builds
\* yields 404 Not Found, never a 200 with an empty list.
C11_AsStated ==
    /\ ReleaseWithoutBuilds => (lreq.pc = "done" /\ lreq.response.status = 404)
    /\ NoEmptyListServed

\* C11 amended: a listing request for a crate+version that has zero builds is
\* answered 404 Not Found when the catalog lookup of match_version answers, and
\* with a server error when that lookup fails; it is never answered with a
\* redirect or a 200, and no 200 carries an empty list.
C11_NoBuildsNotFound ==
    /\ ReleaseWithoutBuilds =>
          /\ lreq.pc = "done"
          /\ lreq.response.kind = "error"
          /\ lreq.response.body = <<>>
          /\ lreq.response.status = (IF lreq.db_failed THEN 500 ELSE 404)
    /\ NoEmptyListServed

\* foo 0.2.0 was requested while only foo 0.1.0 had builds, and was not found
C11_Witness ==
    /\ ReleaseWithoutBuilds
    /\ lreq.name = "foo" /\ lreq.specifier = "0.2.0"
    /\ lreq.visible0 = {V010}
    /\ ~lreq.db_failed
    /\ lreq.response.status = 404

\* the specifier of the listing request is malformed
Malformed == ParseReqVersion(lreq.specifier) = Invalid

\* the listing request has arrived and its specifier matches no release of the
\* catalog: the crate is unknown, the version is unknown, or the specifier is malformed
NoStoredMatch ==
    /\ lreq.pc /= "idle"
    /\ ~\E rel \in releases :
           rel.name = lreq.name /\ Matches(ParseReqVersion(lreq.specifier), rel.version)

\* C12 as stated: a listing request whose specifier matches no stored release
\* (unknown exact version, unknown crate, malformed version string) yields 404
\* with no redirect, never a server error.
C12_AsStated ==
    NoStoredMatch =>
        /\ lreq.pc = "done"
        /\ lreq.response.status = 404
        /\ lreq.response.kind /= "redirect"

\* C12 amended: such a request is never redirected and never served. A
\* malformed version string always yields 404; an unknown crate or version
\* yields 404 when the catalog lookup of match_version answers and a server
\* error when that lookup fails.
C12_UnmatchedNotFound ==
    NoStoredMatch =>
        /\ lreq.pc = "done"
        /\ lreq.response.kind = "error"
        /\ lreq.response.location = ""
        /\ lreq.response.status = (IF lreq.db_failed THEN 500 ELSE 404)
        /\ Malformed => ~lreq.db_failed

\* foo 1.3.1, which is not stored, was requested while foo had a listed release
C12_Witness ==
    /\ NoStoredMatch
    /\ lreq.name = "foo" /\ lreq.specifier = "1.3.1"
    /\ lreq.visible0 /= {}
    /\ lreq.response.status = 404

\* C14: the cache policy is fixed by the kind of successful listing response:
\* every served builds page carries NoCaching, every served builds.json carries
\* NoStoreMustRevalidate together with Access-Control-Allow-Origin: *, and
\* neither carries ForeverInCdn.
C14_CachePolicyByKind ==
    lreq.response.status = 200 =>
        /\ lreq.response.kind = (IF lreq.route = "builds" THEN "page" ELSE "json")
        /\ lreq.response.kind = "page" =>
              lreq.response.cache = "NoCaching" /\ lreq.response.cors = ""
        /\ lreq.response.kind = "json" =>
              lreq.response.cache = "NoStoreMustRevalidate" /\ lreq.response.cors = "*"
        /\ lreq.response.cache /= "ForeverInCdn"

\* builds.json of an exact version was served with its headers
C14_Witness ==
    /\ lreq.pc = "done" /\ lreq.route = "builds.json"
    /\ lreq.specifier = "0.1.0"
    /\ lreq.response.status = 200
    /\ lreq.response.cors = "*"
    /\ lreq.response.cache = "NoStoreMustRevalidate"

\* the fields of one element of builds.json
ApiFields == {"id", "rustc_version", "docsrs_version", "build_status", "build_time"}

\* C19: the API view is an element-by-element projection of the record
\* sequence get_builds returned: it has the same length and the same order
\* (element i carries the id of record i), each element has exactly the fields
\* id, rustc_version, docsrs_version, build_status and build_time, with the
\* values of the record in the three it copies, and the error log is in none.
C19_ApiViewIsProjection ==
    lreq.response.kind = "json" =>
        /\ Len(lreq.response.body) = Len(lreq.rows)
        /\ \A i \in DOMAIN lreq.rows :
              /\ lreq.response.body[i].id = lreq.rows[i].id
              /\ DOMAIN lreq.response.body[i] = ApiFields
              /\ "errors" \notin DOMAIN lreq.response.body[i]
              /\ lreq.response.body[i].rustc_version = lreq.rows[i].rustc_version
              /\ lreq.response.body[i].docsrs_version = lreq.rows[i].docsrs_version
              /\ lreq.response.body[i].build_time = lreq.rows[i].build_time

\* builds.json was served for two builds, the older of them failed with an error log
C19_Witness ==
    /\ lreq.pc = "done" /\ lreq.response.kind = "json"
    /\ Len(lreq.rows) = 2
    /\ lreq.rows[2].errors = Some("some errors")
    /\ lreq.response.body[1].id = lreq.rows[1].id
    /\ lreq.response.body[2].id = lreq.rows[2].id

\* the two resolutions agree on one request: both go on with the version, or
\* both answer not found, or both fail, or both redirect with ForeverInCdn to
\* paths that differ in the suffix only
SameResolution(page, json) ==
    /\ page.kind = json.kind
    /\ page.status = json.status
    /\ page.kind = "redirect" =>
          /\ page.cache = "ForeverInCdn" /\ json.cache = "ForeverInCdn"
          /\ json.location = page.location \o ".json"
          /\ \E v \in {"0.1.0", "0.2.0"}, name \in ListNames :
                page.location = "/crate/" \o name \o "/" \o v \o "/builds"

\* C20: the HTML and the JSON listing endpoint apply the same resolution rule:
\* for every state of the catalog, every crate name and every specifier, one
\* answers not found iff the other does, one redirects iff the other does, both
\* redirects name the same canonical version with ForeverInCdn, and the
\* redirect targets differ only in the suffix (/builds, /builds.json).
C20_SameResolutionRule ==
    \A name \in ListNames, specifier \in Specifiers, db_ok \in BOOLEAN :
        SameResolution(build_list_resolution(releases, builds, name, specifier, db_ok),
                       build_list_json_resolution(releases, builds, name, specifier, db_ok))

\* with both releases of foo listed, the page request for "0" was redirected
\* to 0.2.0, as builds.json is for the same catalog
C20_Witness ==
    /\ lreq.pc = "done" /\ lreq.route = "builds"
    /\ lreq.name = "foo" /\ lreq.specifier = "0"
    /\ lreq.response.location = "/crate/foo/0.2.0/builds"
    /\ VisibleVersions(releases, builds, "foo") = {V010, V020}
    /\ build_list_json_resolution(releases, builds, "foo", "0", TRUE).location
          = "/crate/foo/0.2.0/builds.json"
    /\ build_list_json_resolution(releases, builds, "regex", "0", TRUE).status = 404
    /\ build_list_resolution(releases, builds, "regex", "0", TRUE).status = 404

----------------------------------------------------------------------------
(* The order and the outcomes of the rebuild trigger, checked under Spec *)

\* C13 as stated: a rebuild request with a valid token for a crate+version that
\* is not in the release catalog fails with VersionNotFound (404);
\* has_build_queued and add_crate are not invoked and the queue is unchanged.
C13_AsStated ==
    \A r \in Reqs :
        (req[r].pc /= "idle" /\ ValidToken(r) /\ ~Stored(r)) =>
            /\ req[r].pc = "done" => JsonResponse(req[r].result).status = 404
            /\ req[r].n_has = 0 /\ req[r].n_add = 0
            /\ req[r].undisturbed => pending_count(queue) = req[r].pending0

\* C13 amended: such a request fails with VersionNotFound (404) when the
\* catalog lookup answers and with a server error when the lookup fails; in
\* both cases has_build_queued and add_crate are not invoked and the queue is
\* unchanged.
C13_UnknownTargetNotFound ==
    \A r \in Reqs :
        (req[r].pc /= "idle" /\ ValidToken(r) /\ ~Stored(r)) =>
            /\ req[r].pc \in {"check_release", "done"}
            /\ req[r].pc = "done" => req[r].result \in {VersionNotFound, InternalError}
            /\ req[r].result = VersionNotFound => JsonResponse(req[r].result).status = 404
            /\ req[r].n_has = 0 /\ req[r].n_add = 0
            /\ req[r].undisturbed => pending_count(queue) = req[r].pending0

\* regex 1.3.1 was asked for with the right token while an entry was pending, and was not found
C13_Witness ==
    \E r \in Reqs :
        /\ RanAlone(r) /\ ValidToken(r) /\ ~Stored(r)
        /\ req[r].result = VersionNotFound
        /\ req[r].pending0 = 1
        /\ pending_count(queue) = 1

\* the request in slot r has passed build_trigger_check and has not called add_crate yet
PassedChecks(r) == req[r].pc = "add_crate"

\* C15: for one crate+version two concurrent valid rebuild requests can both
\* pass the check of has_build_queued before either submits; nothing between
\* the check and add_crate looks at the queue again, so each of them submits
\* (the entry is added even when the other has queued the release meanwhile)
\* and ends with 201 Created unless add_crate itself fails.
C15_BothPassBothCreated ==
    \A r \in Reqs :
        /\ PassedChecks(r) =>
              /\ req[r].n_has = 1 /\ req[r].n_add = 0
              /\ req[r].result = NoResult
              /\ PendingEntries(SubmitRebuild(queue, req[r].name, req[r].version),
                                req[r].name, VersionToString(req[r].version))
                    = PendingEntries(queue, req[r].name, VersionToString(req[r].version)) + 1
        /\ (req[r].pc = "done" /\ req[r].n_add = 1) =>
              /\ req[r].n_has = 1
              /\ req[r].result \in {Created, InternalError}
              /\ req[r].result = Created => JsonResponse(req[r].result).status = 201

\* two requests for foo 0.1.0 both passed the check, both submitted and both
\* ended with 201: the release is pending twice
C15_Witness ==
    \E r, s \in Reqs :
        /\ r /= s /\ Key(r) = Key(s)
        /\ ValidToken(r) /\ ValidToken(s)
        /\ req[r].pc = "done" /\ req[s].pc = "done"
        /\ JsonResponse(req[r].result).status = 201
        /\ JsonResponse(req[s].result).status = 201
        /\ req[r].n_has = 1 /\ req[s].n_has = 1
        /\ PendingEntries(queue, req[r].name, VersionToString(req[r].version)) = 2

\* request r ran alone, called add_crate, and the queue holds what it held
\* when r arrived: the queue collaborator rejected the entry
SubmitRejected(r) ==
    /\ RanAlone(r)
    /\ req[r].n_add = 1
    /\ pending_count(queue) = req[r].pending0

\* C18: if the queue collaborator rejects the add_crate call the request ends
\* in SubmissionFailed, a generic server error: it never answers 201 Created
\* and never submits again. A 201 is answered only for an entry the queue took.
C18_SubmissionFailed ==
    \A r \in Reqs :
        /\ req[r].n_add <= 1
        /\ SubmitRejected(r) =>
              /\ req[r].result = InternalError
              /\ JsonResponse(req[r].result).status = 500
              /\ JsonResponse(req[r].result).status /= 201
        /\ (RanAlone(r) /\ JsonResponse(req[r].result).status = 201) =>
              pending_count(queue) = req[r].pending0 + 1

\* add_crate rejected the entry of a stored release that was not queued
C18_Witness ==
    \E r \in Reqs :
        /\ SubmitRejected(r)
        /\ ValidToken(r) /\ Stored(r) /\ ~req[r].queued0
        /\ req[r].n_has = 1
        /\ ~has_build_queued(queue, req[r].name, VersionToString(req[r].version))
        /\ JsonResponse(req[r].result).status = 500

\* the entry a rebuild request for name and version is to leave in the queue
ExpectedEntry(name, version) ==
    [name |-> name,
     version |-> CASE version = V010 -> "0.1.0"
                   [] version = V020 -> "0.2.0"
                   [] version = V131 -> "1.3.1",
     priority |-> 5,
     registry |-> None]

\* the entries the rebuild requests for the targets are to leave in the queue
ExpectedEntries ==
    {ExpectedEntry(target.name, target.version) : target \in RebuildTargets}

\* the priority is the fixed 5, a small positive value, and the origin is absent
FixedPriorityNoOrigin ==
    /\ TRIGGERED_REBUILD_PRIORITY = 5
    /\ \A e \in ExpectedEntries : e.priority = 5 /\ e.priority > 0 /\ e.registry = None

\* C21: every entry the rebuild trigger submits carries the requested crate
\* name, the string form of the requested version, the fixed priority
\* TRIGGERED_REBUILD_PRIORITY = 5, a small positive value, and no origin,
\* whatever the request and whatever the queue holds.
C21_SubmittedEntry ==
    /\ FixedPriorityNoOrigin
    /\ BagToSet(queue) \subseteq ExpectedEntries
    /\ \A r \in Reqs :
          /\ PassedChecks(r) =>
                SubmitRebuild(queue, req[r].name, req[r].version)
                    = queue (+) SetToBag({ExpectedEntry(req[r].name, req[r].version)})
          /\ (RanAlone(r) /\ req[r].result = Created) =>
                BagIn(ExpectedEntry(req[r].name, req[r].version), queue)

\* foo 0.2.0 was submitted while foo 0.1.0 was pending: the queue holds the two entries
C21_Witness ==
    \E r \in Reqs :
        /\ RanAlone(r) /\ req[r].result = Created
        /\ req[r].name = "foo" /\ req[r].version = V020
        /\ BagToSet(queue) =
              {[name |-> "foo", version |-> "0.1.0", priority |-> 5, registry |-> None],
               [name |-> "foo", version |-> "0.2.0", priority |-> 5, registry |-> None]}

\* request r has ended Unauthorized, NotFound or AlreadyQueued
EndedRefused(r) ==
    /\ req[r].pc = "done"
    /\ req[r].result.kind \in {"Unauthorized", "VersionNotFound", "BadRequest"}

\* C22: a rebuild request that ends Unauthorized, NotFound or AlreadyQueued
\* never calls add_crate: the pending entries of every key and pending_count
\* are after the request what they were before it (the queue holds the same
\* entries, each as many times as before).
C22_RefusedLeavesQueue ==
    \A r \in Reqs :
        EndedRefused(r) =>
            /\ req[r].n_add = 0
            /\ req[r].undisturbed =>
                  /\ queue = req[r].queue0
                  /\ pending_count(queue) = req[r].pending0

\* with two entries pending, a repeated request for one of them was refused
\* as already queued and the two entries are what the queue holds
C22_Witness ==
    \E r \in Reqs :
        /\ EndedRefused(r) /\ req[r].undisturbed
        /\ JsonResponse(req[r].result).status = 400
        /\ req[r].n_has = 1
        /\ pending_count(req[r].queue0) = 2
        /\ queue = req[r].queue0

\* request s had submitted an entry for the release, the entry was consumed,
\* and then the identical valid request r arrived and ran alone
Resubmitted(r, s) ==
    /\ r /= s /\ Key(r) = Key(s)
    /\ req[s].pc = "done" /\ req[s].result = Created /\ ~req[s].undisturbed
    /\ RanAlone(r) /\ ValidToken(r)
    /\ ~req[r].queued0

\* the AlreadyQueued outcome is returned only if has_build_queued was true at the check
RefusedOnlyIfPending(r) ==
    req[r].result.kind = "BadRequest" =>
        /\ req[r].n_has = 1
        /\ req[r].undisturbed =>
              /\ req[r].queued0
              /\ has_build_queued(req[r].queue0, req[r].name, VersionToString(req[r].version))

\* C23 as stated: deduplication is only against currently pending entries:
\* once the pending entry of a release has been consumed by the build pipeline
\* a further identical valid request is accepted again with 201 and enqueues a
\* new entry; AlreadyQueued is returned only if has_build_queued was true at
\* the moment of the check.
C23_AsStated ==
    /\ \A r \in Reqs : RefusedOnlyIfPending(r)
    /\ \A r, s \in Reqs :
          Resubmitted(r, s) =>
              /\ JsonResponse(req[r].result).status = 201
              /\ PendingEntries(queue, req[r].name, VersionToString(req[r].version)) = 1

\* C23 amended: the same, provided no collaborator call of the further request
\* fails: it is never refused as already queued; it is accepted with 201 and
\* enqueues a new entry, or, when its catalog lookup, has_build_queued or
\* add_crate fails, ends with a server error and enqueues nothing.
C23_DedupOnlyAgainstPending ==
    /\ \A r \in Reqs : RefusedOnlyIfPending(r)
    /\ \A r, s \in Reqs :
          Resubmitted(r, s) =>
              /\ JsonResponse(req[r].result).status \in {201, 500}
              /\ JsonResponse(req[r].result).status = 201 =>
                    /\ PendingEntries(queue, req[r].name, VersionToString(req[r].version)) = 1
                    /\ queue = req[r].queue0
                          (+) SetToBag({ExpectedEntry(req[r].name, req[r].version)})
              /\ JsonResponse(req[r].result).status = 500 => queue = req[r].queue0

\* foo 0.1.0 was submitted, built, and submitted again: both requests ended
\* with 201 and one entry is pending
C23_Witness ==
    \E r, s \in Reqs :
        /\ Resubmitted(r, s)
        /\ req[r].name = "foo" /\ req[r].version = V010
        /\ req[r].n_has = 1 /\ req[r].n_add = 1
        /\ JsonResponse(req[r].result).status = 201
        /\ JsonResponse(req[s].result).status = 201
        /\ pending_count(req[r].queue0) = 0
        /\ pending_count(queue) = 1

----------------------------------------------------------------------------
(* The order of the checks and the end of every request, checked under SpecLive *)

\* the checks request r has passed, from its position and its result:
\* 0 Start, 1 Authenticated, 2 TargetValidated, 3 NotAlreadyQueued, 4 Submitted
ChecksPassed(r) ==
    CASE req[r].pc = "idle" -> 0
      [] req[r].pc = "check_release" -> 1
      [] req[r].pc = "check_queue" -> 2
      [] req[r].pc = "add_crate" -> 3
      [] req[r].result = Created -> 4
      [] req[r].result.kind = "Unauthorized" -> 0
      [] req[r].result = VersionNotFound -> 1
      [] req[r].result.kind = "BadRequest" -> 2
      [] req[r].n_add = 1 -> 3
      [] req[r].n_has = 1 -> 2
      [] OTHER -> 1

\* the order of the checks: a request is past the token gate only with the
\* configured token and past the lookup only for a stored release; it has
\* called has_build_queued only past the lookup, and add_crate only past the
\* queue check
ChecksInOrder(r) ==
    /\ ChecksPassed(r) >= 1 => ValidToken(r)
    /\ ChecksPassed(r) >= 2 => Stored(r)
    /\ req[r].n_has >= 1 => ChecksPassed(r) >= 2
    /\ ChecksPassed(r) >= 3 => req[r].n_has = 1
    /\ req[r].n_add >= 1 => (ChecksPassed(r) >= 3 /\ req[r].n_has = 1)

\* a request without the configured token ends Unauthorized whatever it aims at
UnauthorizedFirst(r) ==
    (req[r].pc /= "idle" /\ ~ValidToken(r)) =>
        /\ req[r].pc = "done"
        /\ JsonResponse(req[r].result).status = 401
        /\ req[r].n_has = 0 /\ req[r].n_add = 0

\* C16 as stated: a rebuild request passes its checks in the order Start,
\* Authenticated, TargetValidated, NotAlreadyQueued, Submitted; a request that
\* is unauthorized and aimed at an unknown or already queued target ends
\* Unauthorized (401), and a valid-token request for an unknown target ends
\* NotFound, never AlreadyQueued.
C16_AsStated ==
    \A r \in Reqs :
        /\ ChecksInOrder(r)
        /\ UnauthorizedFirst(r)
        /\ (req[r].pc = "done" /\ ValidToken(r) /\ ~Stored(r)) =>
               JsonResponse(req[r].result).status = 404

\* C16 amended: the same order; a valid-token request for an unknown target
\* never ends AlreadyQueued, even when the target is pending in the queue: it
\* ends NotFound when the catalog lookup answers and with a server error,
\* before the queue is consulted, when the lookup fails.
C16_ChecksInOrder ==
    \A r \in Reqs :
        /\ ChecksInOrder(r)
        /\ UnauthorizedFirst(r)
        /\ (req[r].pc = "done" /\ ValidToken(r) /\ ~Stored(r)) =>
               /\ req[r].result \in {VersionNotFound, InternalError}
               /\ req[r].result = VersionNotFound => JsonResponse(req[r].result).status = 404
               /\ JsonResponse(req[r].result).status /= 400
               /\ req[r].n_has = 0

\* regex 1.3.1, pending in the queue and not in the catalog, was asked for with
\* the right token and was not found
C16_Witness ==
    \E r \in Reqs :
        /\ RanAlone(r) /\ ValidToken(r) /\ ~Stored(r)
        /\ req[r].queued0
        /\ has_build_queued(queue, req[r].name, VersionToString(req[r].version))
        /\ req[r].result = VersionNotFound

\* the terminal states of the rebuild-trigger state machine
TerminalStates == {"Submitted", "Unauthorized", "NotFound", "AlreadyQueued", "SubmissionFailed"}

\* request r has ended in terminal state t
EndedIn(r, t) ==
    /\ req[r].pc = "done"
    /\ CASE t = "Submitted" -> JsonResponse(req[r].result).status = 201
         [] t = "Unauthorized" -> JsonResponse(req[r].result).status = 401
         [] t = "NotFound" -> JsonResponse(req[r].result).status = 404
         [] t = "AlreadyQueued" -> JsonResponse(req[r].result).status = 400
         [] t = "SubmissionFailed" ->
               JsonResponse(req[r].result).status = 500 /\ req[r].n_add = 1
         [] OTHER -> FALSE

\* request r has ended because the catalog lookup or has_build_queued gave no
\* answer but an error
Unanswered(r) ==
    /\ req[r].pc = "done"
    /\ JsonResponse(req[r].result).status = 500
    /\ req[r].n_add = 0

\* request r is with one of its collaborators
InFlight(r) == req[r].pc \in {"check_release", "check_queue", "add_crate"}

\* C17: every rebuild request eventually reaches exactly one terminal state
\* among Submitted, Unauthorized, NotFound, AlreadyQueued and SubmissionFailed,
\* given the collaborators answer (every awaited call returns; a lookup that
\* returns an error instead of its answer ends the request with a server
\* error), and it calls has_build_queued at most once and add_crate at most once.
C17_OneTerminalState ==
    /\ [](\A r \in Reqs :
            /\ req[r].n_has <= 1 /\ req[r].n_add <= 1
            /\ InFlight(r) => req[r].result = NoResult
            /\ req[r].pc = "done" =>
                  \/ Unanswered(r) /\ \A t \in TerminalStates : ~EndedIn(r, t)
                  \/ Cardinality({t \in TerminalStates : EndedIn(r, t)}) = 1)
    /\ \A r \in LiveReqs : InFlight(r) ~> (req[r].pc = "done")

\* a request has been submitted after one call of has_build_queued and one of
\* add_crate, next to an entry the registry queued
C17_Witness ==
    \E r \in Reqs :
        /\ EndedIn(r, "Submitted")
        /\ req[r].n_has = 1 /\ req[r].n_add = 1
        /\ req[r].undisturbed
        /\ pending_count(queue) = 2

====
